---------------------------- MODULE Spec2Model ----------------------------
(***************************************************************************)
(* Model of the YOLOv8 trainer panel (ModelFineTunerPanel) and of the      *)
(* execution button with its empty-menu probe (OperatorButtonWithWarning). *)
(*                                                                         *)
(* Three groups of state:                                                  *)
(*   - the tag statistics derived from the tag counts and the sample count,*)
(*     with the dataset they are fetched from and the periodic refresh     *)
(*   - the panel's job flags and the success overlay with its countdown    *)
(*     intervals                                                           *)
(*   - one execution button: the warning, the polling flag, its timeouts   *)
(*     and the popover surfaces currently in the document                  *)
(* lastEvent and clicked are history variables: the handler that ran last  *)
(* and the surface whose backdrop that handler clicked (0: none).          *)
(***************************************************************************)
EXTENDS Integers, Sequences, FiniteSets

VARIABLES
    tagCounts,            \* tagCountsExecutor.result?.tag_counts || {}
    totalSampleCount,     \* fos.datasetSampleCount || 0
    tagStats,             \* useMemo over tagCounts and totalSampleCount
    samples,              \* the dataset's samples, counted by the tags they carry
    dataset,              \* fos.dataset: "null" or the dataset's name
    refreshIntervals,     \* running tag-count refresh intervals
    issued,               \* tagCountsExecutor.execute calls so far
    inflight,             \* executions whose result has not landed yet
    appliedSeq,           \* the execution whose result tagCounts holds (0: none)
    view,                 \* fos.view: the stages handed to setView
    prevView,             \* the view the last bar click replaced
    mounted,              \* the panel (and its buttons) is mounted
    activeTab,            \* "train" | "apply"
    isTraining,
    isApplying,
    showSuccessOverlay,
    successMessage,
    countdown,
    intervals,            \* running countdown intervals, oldest first
    showNoTargetsWarning,
    isCheckingMenu,
    checkTimeoutRef,      \* "null" or "timer": checkTimeoutRef.current
    timeouts,             \* pending timeouts of the button: name -> ms left
    disabled,             \* the button's disabled prop
    menus,                \* surfaces matched by the probe, document order
    lastEvent,
    clicked

refreshVars == <<dataset, refreshIntervals, issued, inflight, appliedSeq>>
viewVars == <<view, prevView>>
statsVars == <<tagCounts, totalSampleCount, tagStats, samples, refreshVars, viewVars>>
panelVars == <<mounted, activeTab, isTraining, isApplying, showSuccessOverlay,
               successMessage, countdown, intervals>>
probeVars == <<showNoTargetsWarning, isCheckingMenu, checkTimeoutRef, timeouts,
               disabled, menus>>
vars == <<statsVars, panelVars, probeVars, lastEvent, clicked>>

-----------------------------------------------------------------------------
(* Bounds of the model *)

\* largest tag count and sample count drawn
MaxCount == 4
\* countdown intervals that may run at once
MaxIntervals == 2
\* surfaces in the document at once
MaxMenus == 2
\* menu items in one surface
MaxItems == 1
\* executions of the tag-count operator in one run
MaxRequests == 3

(* Program constants *)

\* let count = 5; setCountdown(5)
CountdownStart == 5
\* setTimeout(checkForEmptyMenu, 100)
FirstCheckDelay == 100
\* setTimeout(checkForEmptyMenu, 50)
RecheckDelay == 50
\* stop checking after 500ms total
StopDelay == 500

Tags == {"train", "val"}

Max(a, b) == IF a >= b THEN a ELSE b

-----------------------------------------------------------------------------
(* Tag statistics *)

\* tagCounts[tag] || 0
CountOf(tc, tag) == IF tag \in DOMAIN tc THEN tc[tag] ELSE 0

\* the overlap is not clamped at zero
computeStats_NoOverlapClamp(trainCount, valCount, totalCount) ==
    LET bothCount == trainCount + valCount - totalCount
        trainOnlyCount == trainCount - bothCount
        valOnlyCount == valCount - bothCount
        taggedCount == trainOnlyCount + valOnlyCount + bothCount
        untaggedCount == Max(0, totalCount - taggedCount)
    IN  [train_count |-> trainOnlyCount, val_count |-> valOnlyCount,
         both_count |-> bothCount, total_count |-> totalCount,
         untagged_count |-> untaggedCount]

\* the one-tag counts are the raw counts: the overlap is not taken out of them
computeStats_OverlapNotSubtracted(trainCount, valCount, totalCount) ==
    LET bothCount == Max(0, trainCount + valCount - totalCount)
        trainOnlyCount == trainCount
        valOnlyCount == valCount
        taggedCount == trainOnlyCount + valOnlyCount + bothCount
        untaggedCount == Max(0, totalCount - taggedCount)
    IN  [train_count |-> trainOnlyCount, val_count |-> valOnlyCount,
         both_count |-> bothCount, total_count |-> totalCount,
         untagged_count |-> untaggedCount]

\* the val-only samples are not counted as tagged
computeStats_UntaggedIgnoresVal(trainCount, valCount, totalCount) ==
    LET bothCount == Max(0, trainCount + valCount - totalCount)
        trainOnlyCount == trainCount - bothCount
        valOnlyCount == valCount - bothCount
        taggedCount == trainOnlyCount + bothCount
        untaggedCount == Max(0, totalCount - taggedCount)
    IN  [train_count |-> trainOnlyCount, val_count |-> valOnlyCount,
         both_count |-> bothCount, total_count |-> totalCount,
         untagged_count |-> untaggedCount]

\* the one-tag counts are kept from going below zero
computeStats_OneTagCountsClamped(trainCount, valCount, totalCount) ==
    LET bothCount == Max(0, trainCount + valCount - totalCount)
        trainOnlyCount == Max(0, trainCount - bothCount)
        valOnlyCount == Max(0, valCount - bothCount)
        taggedCount == trainOnlyCount + valOnlyCount + bothCount
        untaggedCount == Max(0, totalCount - taggedCount)
    IN  [train_count |-> trainOnlyCount, val_count |-> valOnlyCount,
         both_count |-> bothCount, total_count |-> totalCount,
         untagged_count |-> untaggedCount]

\* the overlap is taken to be as large as the counts allow
computeStats_LargestOverlap(trainCount, valCount, totalCount) ==
    LET bothCount == IF trainCount <= valCount THEN trainCount ELSE valCount
        trainOnlyCount == trainCount - bothCount
        valOnlyCount == valCount - bothCount
        taggedCount == trainOnlyCount + valOnlyCount + bothCount
        untaggedCount == Max(0, totalCount - taggedCount)
    IN  [train_count |-> trainOnlyCount, val_count |-> valOnlyCount,
         both_count |-> bothCount, total_count |-> totalCount,
         untagged_count |-> untaggedCount]

computeStats(trainCount, valCount, totalCount) ==
    LET bothCount == Max(0, trainCount + valCount - totalCount)
        trainOnlyCount == trainCount - bothCount
        valOnlyCount == valCount - bothCount
        taggedCount == trainOnlyCount + valOnlyCount + bothCount
        untaggedCount == Max(0, totalCount - taggedCount)
    IN  [train_count |-> trainOnlyCount, val_count |-> valOnlyCount,
         both_count |-> bothCount, total_count |-> totalCount,
         untagged_count |-> untaggedCount]

\* the useMemo body: reads the two raw counts and the total
TagStatsOf(tc, total) == computeStats(CountOf(tc, "train"), CountOf(tc, "val"), total)

isReadyToTrain ==
    /\ (tagStats.train_count > 0 \/ tagStats.both_count > 0)
    /\ (tagStats.val_count > 0 \/ tagStats.both_count > 0)

\* results the tag-count operator may return: counts for any subset of the tags
TagCountResults == UNION {[S -> 0..MaxCount] : S \in SUBSET Tags}

\* a result of the tag-count operator lands
ExecutorResult(tc) ==
    /\ mounted
    /\ tagCounts' = tc
    /\ tagStats' = TagStatsOf(tc, totalSampleCount)
    /\ lastEvent' = "ExecutorResult"
    /\ clicked' = 0
    /\ UNCHANGED <<totalSampleCount, samples, refreshVars, viewVars, panelVars, probeVars>>

\* the dataset's sample count changes
SampleCountChanged(n) ==
    /\ mounted
    /\ totalSampleCount' = n
    /\ tagStats' = TagStatsOf(tagCounts, n)
    /\ lastEvent' = "SampleCountChanged"
    /\ clicked' = 0
    /\ UNCHANGED <<tagCounts, samples, refreshVars, viewVars, panelVars, probeVars>>

-----------------------------------------------------------------------------
(* The dataset behind the counts *)

\* the samples of a dataset, counted by the tags they carry
Compositions ==
    {c \in [onlyTrain : 0..MaxCount, onlyVal : 0..MaxCount,
            both : 0..MaxCount, neither : 0..MaxCount] :
        c.onlyTrain + c.onlyVal + c.both + c.neither <= MaxCount}

SampleCount(c) == c.onlyTrain + c.onlyVal + c.both + c.neither

NumTagged(c, tag) ==
    c.both + (IF tag = "train" THEN c.onlyTrain ELSE c.onlyVal)

\* the result of the tag-count operator: for every tag some sample carries,
\* the number of samples carrying it
CountSampleTags(c) ==
    [tag \in {t \in Tags : NumTagged(c, t) > 0} |-> NumTagged(c, tag)]

\* samples are added, removed or retagged in the application
SamplesRetagged(c) ==
    /\ mounted
    /\ c # samples
    /\ samples' = c
    /\ lastEvent' = "SamplesRetagged"
    /\ clicked' = 0
    /\ UNCHANGED <<tagCounts, totalSampleCount, tagStats, refreshVars, viewVars,
                   panelVars, probeVars>>

-----------------------------------------------------------------------------
(* The view set by a click on a bar or on the total *)

\* what the bars and the total pass to handleFilterByTag; "null" is null
Categories == {"null", "train", "val", "both", "untagged"}

\* a fiftyone.core.stages.MatchTags stage: kwargs tags, and bool (true when
\* the kwarg is absent)
MatchTags(tags, bool) == [tags |-> tags, bool |-> bool]

\* both is one stage over the two tags
buildFilter_BothAsOneStage(tag) ==
    CASE tag = "null" -> <<>>
      [] tag = "untagged" -> <<MatchTags({"train", "val"}, FALSE)>>
      [] tag = "both" -> <<MatchTags({"train", "val"}, TRUE)>>
      [] OTHER -> <<MatchTags({tag}, TRUE)>>

\* a single-tag view leaves out the samples carrying the other tag
buildFilter_SingleTagExcludesOther(tag) ==
    CASE tag = "null" -> <<>>
      [] tag = "untagged" -> <<MatchTags({"train", "val"}, FALSE)>>
      [] tag = "both" -> <<MatchTags({"train"}, TRUE), MatchTags({"val"}, TRUE)>>
      [] OTHER -> <<MatchTags({tag}, TRUE), MatchTags(Tags \ {tag}, FALSE)>>

\* the untagged stage lacks the kwarg bool: false
buildFilter_UntaggedWithoutBool(tag) ==
    CASE tag = "null" -> <<>>
      [] tag = "untagged" -> <<MatchTags({"train", "val"}, TRUE)>>
      [] tag = "both" -> <<MatchTags({"train"}, TRUE), MatchTags({"val"}, TRUE)>>
      [] OTHER -> <<MatchTags({tag}, TRUE)>>

\* the stages handleFilterByTag hands to setView
buildFilter(tag) ==
    CASE tag = "null" -> <<>>
      [] tag = "untagged" -> <<MatchTags({"train", "val"}, FALSE)>>
      [] tag = "both" -> <<MatchTags({"train"}, TRUE), MatchTags({"val"}, TRUE)>>
      [] OTHER -> <<MatchTags({tag}, TRUE)>>

FilterEvent(tag) ==
    CASE tag = "null" -> "handleFilterByTag:null"
      [] tag = "untagged" -> "handleFilterByTag:untagged"
      [] tag = "both" -> "handleFilterByTag:both"
      [] tag = "train" -> "handleFilterByTag:train"
      [] tag = "val" -> "handleFilterByTag:val"

\* the new stages are added to the stages of the view
handleFilterByTag_Appends(tag) ==
    /\ mounted
    /\ Len(view) < 2
    /\ view' = view \o buildFilter(tag)
    /\ prevView' = view
    /\ lastEvent' = FilterEvent(tag)
    /\ clicked' = 0
    /\ UNCHANGED <<tagCounts, totalSampleCount, tagStats, samples, refreshVars,
                   panelVars, probeVars>>

\* a bar (or the total, with null) is clicked
handleFilterByTag(tag) ==
    /\ mounted
    /\ view' = buildFilter(tag)
    /\ prevView' = view
    /\ lastEvent' = FilterEvent(tag)
    /\ clicked' = 0
    /\ UNCHANGED <<tagCounts, totalSampleCount, tagStats, samples, refreshVars,
                   panelVars, probeVars>>

\* the four kinds of samples and the tags a sample of each kind carries
Kinds == {"onlyTrain", "onlyVal", "both", "neither"}

TagsOfKind(k) ==
    CASE k = "onlyTrain" -> {"train"}
      [] k = "onlyVal" -> {"val"}
      [] k = "both" -> {"train", "val"}
      [] k = "neither" -> {}

\* MatchTags keeps the samples carrying any of the tags, or with bool false
\* the samples carrying none of them
StageKeeps(stage, k) ==
    IF stage.bool THEN TagsOfKind(k) \cap stage.tags # {}
                  ELSE TagsOfKind(k) \cap stage.tags = {}

\* the samples of composition c a view shows: its stages apply one after
\* the other
ViewSamples(v, c) ==
    [k \in Kinds |->
        IF \A i \in 1..Len(v) : StageKeeps(v[i], k) THEN c[k] ELSE 0]

-----------------------------------------------------------------------------
(* The periodic refresh of the tag counts *)

DatasetNames == {"null", "quickstart", "other"}

\* no cleanup is returned: the interval of the previous dataset keeps running
RefreshCleanup_Missing(n, ds) == n

\* the cleanup of the refresh effect: clearInterval(interval), returned only
\* when the effect ran with a dataset
RefreshCleanup(n, ds) == IF ds # "null" THEN n - 1 ELSE n

\* fos.dataset changes to a dataset of another name (or to none): the cleanup
\* of the refresh effect runs, then the effect: with a dataset it fetches
\* once and starts the 2 s interval
DatasetChanged(ds) ==
    /\ mounted
    /\ ds # dataset
    /\ dataset' = ds
    /\ IF ds # "null"
         THEN /\ issued < MaxRequests
              /\ issued' = issued + 1
              /\ inflight' = inflight \cup {issued + 1}
              /\ refreshIntervals' = RefreshCleanup(refreshIntervals, dataset) + 1
         ELSE /\ refreshIntervals' = RefreshCleanup(refreshIntervals, dataset)
              /\ UNCHANGED <<issued, inflight>>
    /\ lastEvent' = "DatasetChanged"
    /\ clicked' = 0
    /\ UNCHANGED <<tagCounts, totalSampleCount, tagStats, samples, appliedSeq,
                   viewVars, panelVars, probeVars>>

\* a refresh interval fires: tagCountsExecutor.execute({})
RefreshTick ==
    /\ refreshIntervals > 0
    /\ issued < MaxRequests
    /\ issued' = issued + 1
    /\ inflight' = inflight \cup {issued + 1}
    /\ lastEvent' = "refreshInterval"
    /\ clicked' = 0
    /\ UNCHANGED <<tagCounts, totalSampleCount, tagStats, samples, dataset,
                   refreshIntervals, appliedSeq, viewVars, panelVars, probeVars>>

\* the result of execution r lands and becomes tagCountsExecutor.result;
\* executions finish in any order
ResultLands(r, tc) ==
    /\ mounted
    /\ r \in inflight
    /\ inflight' = inflight \ {r}
    /\ appliedSeq' = r
    /\ tagCounts' = tc
    /\ tagStats' = TagStatsOf(tc, totalSampleCount)
    /\ lastEvent' = "ResultLands"
    /\ clicked' = 0
    /\ UNCHANGED <<totalSampleCount, samples, dataset, refreshIntervals, issued,
                   viewVars, panelVars, probeVars>>

-----------------------------------------------------------------------------
(* The panel: job flags, success overlay and countdown intervals *)

\* an interval's entry: the closure's count, and whether it has fired in the
\* current one-second period
NewInterval == [count |-> CountdownStart, fired |-> TRUE]

RemoveAt(seq, i) == SubSeq(seq, 1, i - 1) \o SubSeq(seq, i + 1, Len(seq))

setActiveTab(tab) ==
    /\ mounted
    /\ activeTab' = tab
    /\ lastEvent' = "setActiveTab"
    /\ clicked' = 0
    /\ UNCHANGED <<statsVars, mounted, isTraining, isApplying, showSuccessOverlay,
                   successMessage, countdown, intervals, probeVars>>

\* the disabled prop of the Start Training button
TrainDisabled == isTraining \/ ~isReadyToTrain

\* the disabled prop of the Apply Model button
ApplyDisabled == isApplying

\* the Start Training button takes a submission whatever its disabled prop
handleTrainStart_IgnoresDisabled ==
    /\ mounted
    /\ activeTab = "train"
    /\ isTraining' = TRUE
    /\ lastEvent' = "handleTrainStart"
    /\ clicked' = 0
    /\ UNCHANGED <<statsVars, mounted, activeTab, isApplying, showSuccessOverlay,
                   successMessage, countdown, intervals, probeVars>>

\* an execution option is selected on the Start Training button
handleTrainStart ==
    /\ mounted
    /\ activeTab = "train"
    /\ ~TrainDisabled
    /\ isTraining' = TRUE
    /\ lastEvent' = "handleTrainStart"
    /\ clicked' = 0
    /\ UNCHANGED <<statsVars, mounted, activeTab, isApplying, showSuccessOverlay,
                   successMessage, countdown, intervals, probeVars>>

\* an execution option is selected on the Apply Model button
handleApplyStart ==
    /\ mounted
    /\ activeTab = "apply"
    /\ ~ApplyDisabled
    /\ isApplying' = TRUE
    /\ lastEvent' = "handleApplyStart"
    /\ clicked' = 0
    /\ UNCHANGED <<statsVars, mounted, activeTab, isTraining, showSuccessOverlay,
                   successMessage, countdown, intervals, probeVars>>

\* the delegated branch leaves the notification state alone
ShowScheduled_NoCountdownReset(message) ==
    /\ successMessage' = message
    /\ showSuccessOverlay' = TRUE
    /\ countdown' = countdown
    /\ intervals' = Append(intervals, NewInterval)

\* the branch response?.delegated of both success handlers
ShowScheduled(message) ==
    /\ successMessage' = message
    /\ showSuccessOverlay' = TRUE
    /\ countdown' = CountdownStart
    /\ intervals' = Append(intervals, NewInterval)

\* onSuccess of the Start Training button; the execution provider reports an
\* outcome only for a submission it has started
handleTrainSuccess(delegated) ==
    /\ mounted
    /\ isTraining
    /\ isTraining' = FALSE
    /\ IF delegated
         THEN /\ Len(intervals) < MaxIntervals
              /\ ShowScheduled("Training successfully scheduled!")
              /\ lastEvent' = "handleTrainSuccess:delegated"
         ELSE /\ UNCHANGED <<showSuccessOverlay, successMessage, countdown, intervals>>
              /\ lastEvent' = "handleTrainSuccess:immediate"
    /\ clicked' = 0
    /\ UNCHANGED <<statsVars, mounted, activeTab, isApplying, probeVars>>

\* the error handler leaves the training flagged as pending
handleTrainError_StaysPending ==
    /\ mounted
    /\ isTraining
    /\ lastEvent' = "handleTrainError"
    /\ clicked' = 0
    /\ UNCHANGED <<statsVars, panelVars, probeVars>>

\* onError of the Start Training button
handleTrainError ==
    /\ mounted
    /\ isTraining
    /\ isTraining' = FALSE
    /\ lastEvent' = "handleTrainError"
    /\ clicked' = 0
    /\ UNCHANGED <<statsVars, mounted, activeTab, isApplying, showSuccessOverlay,
                   successMessage, countdown, intervals, probeVars>>

\* the success handler does not look at response.delegated
handleApplySuccess_AlwaysNotifies(delegated) ==
    /\ mounted
    /\ isApplying
    /\ isApplying' = FALSE
    /\ Len(intervals) < MaxIntervals
    /\ ShowScheduled("Model application successfully scheduled!")
    /\ lastEvent' = IF delegated THEN "handleApplySuccess:delegated"
                                 ELSE "handleApplySuccess:immediate"
    /\ clicked' = 0
    /\ UNCHANGED <<statsVars, mounted, activeTab, isTraining, probeVars>>

\* onSuccess of the Apply Model button
handleApplySuccess(delegated) ==
    /\ mounted
    /\ isApplying
    /\ isApplying' = FALSE
    /\ IF delegated
         THEN /\ Len(intervals) < MaxIntervals
              /\ ShowScheduled("Model application successfully scheduled!")
              /\ lastEvent' = "handleApplySuccess:delegated"
         ELSE /\ UNCHANGED <<showSuccessOverlay, successMessage, countdown, intervals>>
              /\ lastEvent' = "handleApplySuccess:immediate"
    /\ clicked' = 0
    /\ UNCHANGED <<statsVars, mounted, activeTab, isTraining, probeVars>>

\* onError of the Apply Model button
\* an error of the model application resets both job flags
handleApplyError_ResetsBothFlags ==
    /\ mounted
    /\ isApplying
    /\ isApplying' = FALSE
    /\ isTraining' = FALSE
    /\ lastEvent' = "handleApplyError"
    /\ clicked' = 0
    /\ UNCHANGED <<statsVars, mounted, activeTab, showSuccessOverlay,
                   successMessage, countdown, intervals, probeVars>>

handleApplyError ==
    /\ mounted
    /\ isApplying
    /\ isApplying' = FALSE
    /\ lastEvent' = "handleApplyError"
    /\ clicked' = 0
    /\ UNCHANGED <<statsVars, mounted, activeTab, isTraining, showSuccessOverlay,
                   successMessage, countdown, intervals, probeVars>>

\* the interval is never cleared: it keeps counting below zero
IntervalTick_NeverCleared(i) ==
    /\ i \in 1..Len(intervals)
    /\ ~intervals[i].fired
    /\ intervals[i].count > -1
    /\ LET count == intervals[i].count - 1
       IN  /\ intervals' = [intervals EXCEPT ![i] = [count |-> count, fired |-> TRUE]]
           /\ countdown' = IF mounted THEN count ELSE countdown
           /\ showSuccessOverlay' =
                  IF mounted /\ count = 0 THEN FALSE ELSE showSuccessOverlay
    /\ lastEvent' = "countdownInterval"
    /\ clicked' = 0
    /\ UNCHANGED <<statsVars, mounted, activeTab, isTraining, isApplying,
                   successMessage, probeVars>>

\* the callback of one countdown interval. The state setters of a panel that
\* is no longer mounted change nothing; the closure's count still runs.
IntervalTick(i) ==
    /\ i \in 1..Len(intervals)
    /\ ~intervals[i].fired
    /\ LET count == intervals[i].count - 1
       IN  /\ intervals' =
                  IF count = 0
                    THEN RemoveAt(intervals, i)
                    ELSE [intervals EXCEPT ![i] = [count |-> count, fired |-> TRUE]]
           /\ countdown' = IF mounted THEN count ELSE countdown
           /\ showSuccessOverlay' =
                  IF mounted /\ count = 0 THEN FALSE ELSE showSuccessOverlay
    /\ lastEvent' = "countdownInterval"
    /\ clicked' = 0
    /\ UNCHANGED <<statsVars, mounted, activeTab, isTraining, isApplying,
                   successMessage, probeVars>>

\* one interval period (1000 ms) has passed for every running interval: each
\* may fire once more. An interval started during a period first fires in the
\* next one.
SecondPasses ==
    /\ intervals # <<>>
    /\ \A i \in 1..Len(intervals) : intervals[i].fired
    /\ intervals' = [i \in 1..Len(intervals) |-> [intervals[i] EXCEPT !.fired = FALSE]]
    /\ lastEvent' = "SecondPasses"
    /\ clicked' = 0
    /\ UNCHANGED <<statsVars, mounted, activeTab, isTraining, isApplying,
                   showSuccessOverlay, successMessage, countdown, probeVars>>

\* the user clicks the success overlay: the overlay and its children carry no
\* event handler, so nothing changes
OverlayClick ==
    /\ mounted
    /\ showSuccessOverlay
    /\ lastEvent' = "OverlayClick"
    /\ clicked' = 0
    /\ UNCHANGED <<statsVars, panelVars, probeVars>>

-----------------------------------------------------------------------------
(* The execution button and its empty-menu probe *)

\* a surface matched by '.MuiPopover-root, [role="presentation"]': whether its
\* bounding rectangle has width > 0 and height > 0, how many menu items it
\* holds, and whether it holds a '.MuiBackdrop-root'
Surfaces == [visible : BOOLEAN, items : 0..MaxItems, backdrop : BOOLEAN]

Without(f, k) == [x \in DOMAIN f \ {k} |-> f[x]]
With(f, k, v) == [x \in DOMAIN f \cup {k} |-> IF x = k THEN v ELSE f[x]]
Due(name) == name \in DOMAIN timeouts /\ timeouts[name] = 0

\* the size of a surface is not looked at: the first surface decides
FirstVisible_IgnoresSize(ms) == IF Len(ms) > 0 THEN 1 ELSE 0

\* the index of the first surface of ms that is visible, 0 when none is
FirstVisible(ms) ==
    IF \E i \in 1..Len(ms) : ms[i].visible
      THEN CHOOSE i \in 1..Len(ms) :
               /\ ms[i].visible
               /\ \A j \in 1..(i - 1) : ~ms[j].visible
      ELSE 0

\* a surface with a single item is taken for an empty one
MenuVerdict_OffByOne(ms) ==
    LET i == FirstVisible(ms)
    IN  IF i = 0 THEN "none"
        ELSE IF ms[i].items <= 1 THEN "empty" ELSE "items"

\* what the loop of checkForEmptyMenu finds: the first visible surface decides
MenuVerdict(ms) ==
    LET i == FirstVisible(ms)
    IN  IF i = 0 THEN "none"
        ELSE IF ms[i].items = 0 THEN "empty" ELSE "items"

\* the empty surface is left open: its backdrop is never clicked
BackdropClicked_Never(ms) == 0

\* the surface whose backdrop checkForEmptyMenu clicks (0: none)
BackdropClicked(ms) ==
    LET i == FirstVisible(ms)
    IN  IF i # 0 /\ ms[i].backdrop THEN i ELSE 0

\* the cleanup forgets the stop timeout
EffectCleanup_LeavesStop(ref, tos) ==
    IF ref # "null" THEN Without(tos, "check") ELSE tos

\* the cleanup returned by the polling effect
EffectCleanup(ref, tos) ==
    Without(IF ref # "null" THEN Without(tos, "check") ELSE tos, "stop")

\* the timeouts left once setIsCheckingMenu(false) has been rendered
AfterPollEnds(ref, tos) == IF isCheckingMenu THEN EffectCleanup(ref, tos) ELSE tos

\* a new click hides the warning of the click before
handleWrapperClick_HidesWarning ==
    /\ mounted
    /\ showNoTargetsWarning' = FALSE
    /\ IF ~disabled /\ ~isCheckingMenu
         THEN /\ isCheckingMenu' = TRUE
              /\ checkTimeoutRef' = "timer"
              /\ timeouts' = With(With(timeouts, "check", FirstCheckDelay),
                                  "stop", StopDelay)
         ELSE UNCHANGED <<isCheckingMenu, checkTimeoutRef, timeouts>>
    /\ lastEvent' = "handleWrapperClick"
    /\ clicked' = 0
    /\ UNCHANGED <<statsVars, panelVars, disabled, menus>>

\* a click on the wrapper around the button. Setting isCheckingMenu to the
\* value it already has renders nothing and runs no effect.
handleWrapperClick ==
    /\ mounted
    /\ IF ~disabled /\ ~isCheckingMenu
         THEN /\ isCheckingMenu' = TRUE
              /\ checkTimeoutRef' = "timer"
              /\ timeouts' = With(With(timeouts, "check", FirstCheckDelay),
                                  "stop", StopDelay)
         ELSE UNCHANGED <<isCheckingMenu, checkTimeoutRef, timeouts>>
    /\ lastEvent' = "handleWrapperClick"
    /\ clicked' = 0
    /\ UNCHANGED <<statsVars, panelVars, showNoTargetsWarning, disabled, menus>>

\* the check timeout fires
checkForEmptyMenu ==
    /\ Due("check")
    /\ LET left == Without(timeouts, "check")
           verdict == MenuVerdict(menus)
       IN  CASE verdict = "empty" ->
                  /\ showNoTargetsWarning' = TRUE
                  /\ isCheckingMenu' = FALSE
                  /\ clicked' = BackdropClicked(menus)
                  /\ timeouts' = AfterPollEnds(checkTimeoutRef, left)
             [] verdict = "items" ->
                  /\ isCheckingMenu' = FALSE
                  /\ clicked' = 0
                  /\ timeouts' = AfterPollEnds(checkTimeoutRef, left)
                  /\ UNCHANGED showNoTargetsWarning
             [] OTHER ->
                  /\ timeouts' = IF checkTimeoutRef # "null"
                                   THEN With(left, "check", RecheckDelay)
                                   ELSE left
                  /\ clicked' = 0
                  /\ UNCHANGED <<showNoTargetsWarning, isCheckingMenu>>
    /\ lastEvent' = "checkForEmptyMenu"
    /\ UNCHANGED <<statsVars, panelVars, checkTimeoutRef, disabled, menus>>

\* the stop timeout clears the pending check but leaves the poll flagged as
\* running
stopTimeout_KeepsPolling ==
    /\ Due("stop")
    /\ checkTimeoutRef' = "null"
    /\ timeouts' = Without(Without(timeouts, "stop"), "check")
    /\ lastEvent' = "stopTimeout"
    /\ clicked' = 0
    /\ UNCHANGED <<statsVars, panelVars, showNoTargetsWarning, isCheckingMenu,
                   disabled, menus>>

\* the stop timeout fires
stopTimeout ==
    /\ Due("stop")
    /\ isCheckingMenu' = FALSE
    /\ checkTimeoutRef' = "null"
    /\ timeouts' = LET left == Without(timeouts, "stop")
                       cleared == IF checkTimeoutRef # "null"
                                    THEN Without(left, "check") ELSE left
                   IN  AfterPollEnds("null", cleared)
    /\ lastEvent' = "stopTimeout"
    /\ clicked' = 0
    /\ UNCHANGED <<statsVars, panelVars, showNoTargetsWarning, disabled, menus>>

\* RecheckDelay ms pass while timeouts are pending and none of them is due
TimePasses ==
    /\ DOMAIN timeouts # {}
    /\ \A k \in DOMAIN timeouts : timeouts[k] >= RecheckDelay
    /\ timeouts' = [k \in DOMAIN timeouts |-> timeouts[k] - RecheckDelay]
    /\ lastEvent' = "TimePasses"
    /\ clicked' = 0
    /\ UNCHANGED <<statsVars, panelVars, showNoTargetsWarning, isCheckingMenu,
                   checkTimeoutRef, disabled, menus>>

\* an execution option is selected in the button's menu: the warning is
\* hidden, then the option goes to the onOptionSelected prop if the parent
\* gave one
handleOptionSelected(given) ==
    /\ mounted
    /\ ~disabled
    /\ showNoTargetsWarning' = FALSE
    /\ lastEvent' = IF given THEN "handleOptionSelected:relayed"
                             ELSE "handleOptionSelected"
    /\ clicked' = 0
    /\ UNCHANGED <<statsVars, panelVars, isCheckingMenu, checkTimeoutRef, timeouts,
                   disabled, menus>>

\* the execution button reports an outcome: onSuccess and onError are the
\* parent's props, handed on as they are
relayOutcome(prop) ==
    /\ mounted
    /\ lastEvent' = prop
    /\ clicked' = 0
    /\ UNCHANGED <<statsVars, panelVars, probeVars>>

\* the parent renders the button with another value of disabled
SetDisabled(b) ==
    /\ mounted
    /\ b # disabled
    /\ disabled' = b
    /\ lastEvent' = "SetDisabled"
    /\ clicked' = 0
    /\ UNCHANGED <<statsVars, panelVars, showNoTargetsWarning, isCheckingMenu,
                   checkTimeoutRef, timeouts, menus>>

\* the host application opens a surface: it is added at the end of the document
SurfaceOpens(s) ==
    /\ mounted
    /\ Len(menus) < MaxMenus
    /\ menus' = Append(menus, s)
    /\ lastEvent' = "SurfaceOpens"
    /\ clicked' = 0
    /\ UNCHANGED <<statsVars, panelVars, showNoTargetsWarning, isCheckingMenu,
                   checkTimeoutRef, timeouts, disabled>>

\* the host application removes a surface
SurfaceCloses(i) ==
    /\ mounted
    /\ i \in 1..Len(menus)
    /\ menus' = RemoveAt(menus, i)
    /\ lastEvent' = "SurfaceCloses"
    /\ clicked' = 0
    /\ UNCHANGED <<statsVars, panelVars, showNoTargetsWarning, isCheckingMenu,
                   checkTimeoutRef, timeouts, disabled>>

-----------------------------------------------------------------------------
\* the panel is torn down: the effects' cleanups run. The countdown intervals
\* are created in the success handlers and have no cleanup.
Unmount ==
    /\ mounted
    /\ mounted' = FALSE
    /\ timeouts' = AfterPollEnds(checkTimeoutRef, timeouts)
    /\ refreshIntervals' = RefreshCleanup(refreshIntervals, dataset)
    /\ lastEvent' = "Unmount"
    /\ clicked' = 0
    /\ UNCHANGED <<tagCounts, totalSampleCount, tagStats, samples, dataset, issued,
                   inflight, appliedSeq, viewVars, activeTab, isTraining, isApplying, showSuccessOverlay,
                   successMessage, countdown, intervals, showNoTargetsWarning,
                   isCheckingMenu, checkTimeoutRef, disabled, menus>>

-----------------------------------------------------------------------------
Init ==
    /\ tagCounts = <<>>
    /\ totalSampleCount = 0
    /\ tagStats = TagStatsOf(<<>>, 0)
    /\ samples = [onlyTrain |-> 0, onlyVal |-> 0, both |-> 0, neither |-> 0]
    /\ dataset = "null"
    /\ refreshIntervals = 0
    /\ issued = 0
    /\ inflight = {}
    /\ appliedSeq = 0
    /\ view = <<>>
    /\ prevView = <<>>
    /\ mounted = TRUE
    /\ activeTab = "train"
    /\ isTraining = FALSE
    /\ isApplying = FALSE
    /\ showSuccessOverlay = FALSE
    /\ successMessage = ""
    /\ countdown = CountdownStart
    /\ intervals = <<>>
    /\ showNoTargetsWarning = FALSE
    /\ isCheckingMenu = FALSE
    /\ checkTimeoutRef = "null"
    /\ timeouts = <<>>
    /\ disabled = FALSE
    /\ menus = <<>>
    /\ lastEvent = "init"
    /\ clicked = 0

NextStats ==
    \/ \E tc \in TagCountResults : ExecutorResult(tc)
    \/ \E n \in 0..MaxCount : SampleCountChanged(n)

SpecStats == Init /\ [][NextStats]_vars

\* The panel's handlers, with one tag-count result and one sample count that
\* make the panel ready to train.
NextPanel ==
    \/ ExecutorResult([t \in Tags |-> 1])
    \/ SampleCountChanged(MaxCount)
    \/ \E tab \in {"train", "apply"} : setActiveTab(tab)
    \/ handleTrainStart
    \/ \E delegated \in BOOLEAN : handleTrainSuccess(delegated)
    \/ handleTrainError
    \/ handleApplyStart
    \/ \E delegated \in BOOLEAN : handleApplySuccess(delegated)
    \/ handleApplyError
    \/ \E i \in 1..MaxIntervals : IntervalTick(i)
    \/ SecondPasses
    \/ OverlayClick
    \/ Unmount

SpecPanel == Init /\ [][NextPanel]_vars

NextProbe ==
    \/ handleWrapperClick
    \/ checkForEmptyMenu
    \/ stopTimeout
    \/ TimePasses
    \/ \E given \in BOOLEAN : handleOptionSelected(given)
    \/ \E prop \in {"onSuccess", "onError"} : relayOutcome(prop)
    \/ \E b \in BOOLEAN : SetDisabled(b)
    \/ \E s \in Surfaces : SurfaceOpens(s)
    \/ \E i \in 1..MaxMenus : SurfaceCloses(i)
    \/ Unmount

SpecProbe == Init /\ [][NextProbe]_vars

\* the dataset changes and the panel fetches its tag counts and its size
NextDataset ==
    \/ \E c \in Compositions : SamplesRetagged(c)
    \/ ExecutorResult(CountSampleTags(samples))
    \/ SampleCountChanged(SampleCount(samples))

SpecDataset == Init /\ [][NextDataset]_vars

\* datasets with at most one sample of each kind: every combination of kinds
ViewCompositions == {c \in Compositions : \A k \in Kinds : c[k] <= 1}

\* the bars are clicked while the dataset changes and the counts are fetched
NextView ==
    \/ \E c \in ViewCompositions : SamplesRetagged(c)
    \/ ExecutorResult(CountSampleTags(samples))
    \/ SampleCountChanged(SampleCount(samples))
    \/ \E tag \in Categories : handleFilterByTag(tag)

SpecView == Init /\ [][NextView]_vars

NextRefresh ==
    \/ \E ds \in DatasetNames : DatasetChanged(ds)
    \/ RefreshTick
    \/ \E r \in 1..MaxRequests, tc \in TagCountResults : ResultLands(r, tc)
    \/ Unmount

SpecRefresh == Init /\ [][NextRefresh]_vars

Next == NextStats \/ NextPanel \/ NextProbe \/ NextDataset \/ NextView \/ NextRefresh

Spec == Init /\ [][Next]_vars

-----------------------------------------------------------------------------
(* Claims about the tag statistics, checked under SpecStats *)

rawTrain == CountOf(tagCounts, "train")
rawVal == CountOf(tagCounts, "val")
partsSum ==
    tagStats.train_count + tagStats.val_count + tagStats.both_count
        + tagStats.untagged_count
partsNonNegative ==
    /\ tagStats.train_count >= 0
    /\ tagStats.val_count >= 0
    /\ tagStats.both_count >= 0
    /\ tagStats.untagged_count >= 0

\* C1: whenever 0 <= train <= total and 0 <= val <= total, the four parts
\* computed from them add up to total and none of them is negative.
C1_PartitionOfTotal ==
    (rawTrain <= totalSampleCount /\ rawVal <= totalSampleCount)
        => (partsSum = totalSampleCount /\ partsNonNegative)

\* consistent counts with an inferred overlap, a one-tag remainder on each side
C1_Witness ==
    /\ lastEvent = "ExecutorResult"
    /\ rawTrain <= totalSampleCount /\ rawVal <= totalSampleCount
    /\ tagStats.both_count > 0
    /\ tagStats.train_count > 0
    /\ tagStats.val_count > 0

\* C2: when train or val exceeds total, every part is still non-negative and
\* the parts add up to at most total.
C2_InconsistentCountsClamped ==
    (rawTrain > totalSampleCount \/ rawVal > totalSampleCount)
        => (partsNonNegative /\ partsSum <= totalSampleCount)

\* C3: with total = 0 all four parts are 0, whatever the raw counts are.
C3_ZeroTotalAllZero ==
    totalSampleCount = 0
        => /\ tagStats.train_count = 0
           /\ tagStats.val_count = 0
           /\ tagStats.both_count = 0
           /\ tagStats.untagged_count = 0

-----------------------------------------------------------------------------
(* Claims about the success overlay and its countdown, checked under SpecPanel *)

DelegatedSuccessStep ==
    lastEvent' \in {"handleTrainSuccess:delegated", "handleApplySuccess:delegated"}
TickStep == lastEvent' = "countdownInterval"

\* the only interval running is the one the displayed countdown belongs to
SoloCountdown ==
    /\ mounted
    /\ showSuccessOverlay
    /\ Len(intervals) = 1
    /\ intervals[1].count = countdown

\* C4: a delegated success with no countdown running shows the overlay with
\* the countdown at 5 and starts one interval; each tick of that interval
\* lowers the countdown by exactly 1; the overlay is hidden exactly at the
\* tick that brings the countdown to 0, where the interval is cleared; with no
\* interval left, nothing but a new delegated success changes the countdown.
C4_SoloCountdownRuns ==
    [][ /\ (DelegatedSuccessStep /\ intervals = <<>>)
            => /\ showSuccessOverlay'
               /\ countdown' = CountdownStart
               /\ Len(intervals') = 1
               /\ intervals'[1].count = CountdownStart
        /\ (TickStep /\ SoloCountdown)
            => /\ countdown' = countdown - 1
               /\ showSuccessOverlay' = (countdown' > 0)
               /\ (countdown' = 0 => intervals' = <<>>)
               /\ (countdown' > 0
                     => Len(intervals') = 1 /\ intervals'[1].count = countdown')
        /\ (intervals = <<>> /\ ~DelegatedSuccessStep)
            => (countdown' = countdown /\ intervals' = <<>>)
      ]_vars

\* the tick that brought the countdown to 0 has hidden the overlay and
\* cleared the interval
C4_Witness ==
    /\ mounted
    /\ lastEvent = "countdownInterval"
    /\ countdown = 0
    /\ ~showSuccessOverlay
    /\ intervals = <<>>

\* C5: once the panel is torn down no countdown interval is left running and
\* no countdown tick fires.
C5_NoTickAfterTeardown ==
    [][ /\ ~mounted' => intervals' = <<>>
        /\ ~mounted => ~TickStep ]_vars

\* C6: at most one countdown interval runs at any time, and the overlay stays
\* visible for as long as an interval is counting down.
C6_OneCountdownAtATime ==
    /\ Len(intervals) <= 1
    /\ (mounted /\ intervals # <<>>) => showSuccessOverlay

\* C7: a manual dismissal of the visible overlay hides it at once and clears
\* the countdown interval.
C7_DismissHidesAndClears ==
    [][ lastEvent' = "OverlayClick"
          => (~showSuccessOverlay' /\ intervals' = <<>>) ]_vars

-----------------------------------------------------------------------------
(* Claims about the empty-menu probe, checked under SpecProbe *)

CheckStep == lastEvent' = "checkForEmptyMenu"

\* surface i is the one a check of the current document finds: the first
\* visible one
Found(i) ==
    /\ i \in 1..Len(menus)
    /\ menus[i].visible
    /\ \A j \in 1..(i - 1) : ~menus[j].visible

NoPoll == ~isCheckingMenu /\ DOMAIN timeouts = {}

\* C8: a click on the enabled button while a poll is outstanding cancels that
\* poll and starts a fresh one: first check after 100 ms, a full 500 ms window.
C8_RetriggerRestartsPoll ==
    [][ (lastEvent' = "handleWrapperClick" /\ ~disabled /\ isCheckingMenu)
          => /\ isCheckingMenu'
             /\ DOMAIN timeouts' = {"check", "stop"}
             /\ timeouts'["check"] = FirstCheckDelay
             /\ timeouts'["stop"] = StopDelay ]_vars

\* C9 as stated: a check that finds a visible surface with no items shows the
\* warning, clicks that surface's backdrop and stops polling.
C9_EmptySurfaceWarnsAndDismisses ==
    [][ \A i \in 1..MaxMenus :
          (CheckStep /\ Found(i) /\ menus[i].items = 0)
            => (showNoTargetsWarning' /\ NoPoll' /\ clicked' = i) ]_vars

\* C9 as amended: a check that finds a visible surface with no items shows the
\* warning and stops polling; it clicks the surface's backdrop when the
\* surface has one, and clicks nothing when it has none.
C9_EmptySurfaceWarnsAndDismissesIfBackdrop ==
    [][ \A i \in 1..MaxMenus :
          (CheckStep /\ Found(i) /\ menus[i].items = 0)
            => /\ showNoTargetsWarning'
               /\ NoPoll'
               /\ clicked' = IF menus[i].backdrop THEN i ELSE 0 ]_vars

\* a check has just found an empty visible surface, warned, clicked its
\* backdrop and ended the poll
C9_Witness ==
    /\ lastEvent = "checkForEmptyMenu"
    /\ clicked # 0
    /\ Found(clicked)
    /\ menus[clicked].items = 0
    /\ menus[clicked].backdrop
    /\ showNoTargetsWarning
    /\ NoPoll

\* C10: a check that finds a visible surface with at least one item stops
\* polling, leaves the warning as it was and clicks nothing.
C10_PopulatedSurfaceStopsSilently ==
    [][ \A i \in 1..MaxMenus :
          (CheckStep /\ Found(i) /\ menus[i].items >= 1)
            => /\ NoPoll'
               /\ showNoTargetsWarning' = showNoTargetsWarning
               /\ clicked' = 0 ]_vars

\* a check has just found a populated visible surface and ended the poll
\* without a warning
C10_Witness ==
    /\ lastEvent = "checkForEmptyMenu"
    /\ \E i \in 1..Len(menus) : Found(i) /\ menus[i].items >= 1
    /\ ~showNoTargetsWarning
    /\ NoPoll

\* C11: while a poll runs its stop timeout is pending with at most 500 ms
\* left; when it fires the poll ends (flag off, no timeout pending) and the
\* warning is as it was; the warning is switched on only by a check that
\* found a visible surface without items.
C11_PollEndsAtWindowSilently ==
    [][ /\ (mounted' /\ isCheckingMenu')
            => ("stop" \in DOMAIN timeouts' /\ timeouts'["stop"] <= StopDelay)
        /\ lastEvent' = "stopTimeout"
            => (NoPoll' /\ showNoTargetsWarning' = showNoTargetsWarning)
        /\ (~showNoTargetsWarning /\ showNoTargetsWarning')
            => (CheckStep /\ \E i \in 1..MaxMenus : Found(i) /\ menus[i].items = 0)
      ]_vars

\* the window of a poll that found no visible surface has elapsed: the poll
\* is over and no warning is shown
C11_Witness ==
    /\ lastEvent = "stopTimeout"
    /\ \A i \in 1..Len(menus) : ~menus[i].visible
    /\ ~showNoTargetsWarning
    /\ NoPoll

\* C12: once a poll has ended or the button is unmounted, neither the check
\* timeout nor the stop timeout is pending, no check and no stop callback
\* runs, and the warning is not switched on.
C12_NoProbeTimerOutsideAPoll ==
    [][ /\ (~isCheckingMenu' \/ ~mounted') => DOMAIN timeouts' = {}
        /\ (~isCheckingMenu \/ ~mounted)
            => /\ ~CheckStep
               /\ lastEvent' # "stopTimeout"
               /\ ~(~showNoTargetsWarning /\ showNoTargetsWarning')
      ]_vars

\* the button was unmounted in the middle of a poll and its timeouts are gone
C12_Witness ==
    /\ lastEvent = "Unmount"
    /\ ~mounted
    /\ isCheckingMenu
    /\ DOMAIN timeouts = {}

-----------------------------------------------------------------------------
(* Claims about the refresh of the tag counts, checked under SpecRefresh *)

\* C13: the result applied to tagCounts always comes from a later execution
\* than the one applied before it.
C13_ResultsAppliedInIssueOrder ==
    [][ appliedSeq' # appliedSeq => appliedSeq' > appliedSeq ]_vars

\* C14: at most one refresh interval runs at any time, none runs without a
\* dataset, and none runs once the panel is unmounted.
C14_OneRefreshIntervalWhileLoaded ==
    /\ refreshIntervals <= 1
    /\ dataset = "null" => refreshIntervals = 0
    /\ ~mounted => refreshIntervals = 0
    /\ (mounted /\ dataset # "null") => refreshIntervals = 1

\* the panel was unmounted with a dataset loaded, after its interval had
\* fired, and no interval is left
C14_Witness ==
    /\ lastEvent = "Unmount"
    /\ ~mounted
    /\ dataset # "null"
    /\ issued >= 2
    /\ refreshIntervals = 0

-----------------------------------------------------------------------------
(* Claims about the displayed counts of a dataset, checked under SpecDataset *)

\* the tag counts and the sample count shown were both fetched from the
\* dataset as it is now
FreshSnapshot ==
    /\ tagCounts = CountSampleTags(samples)
    /\ totalSampleCount = SampleCount(samples)

\* C18: the four bars show the dataset's partition: samples with only train,
\* with only val, with both tags and with neither.
C18_BarsShowThePartition ==
    FreshSnapshot
        => /\ tagStats.train_count = samples.onlyTrain
           /\ tagStats.val_count = samples.onlyVal
           /\ tagStats.both_count = samples.both
           /\ tagStats.untagged_count = samples.neither

-----------------------------------------------------------------------------
(* Claims about the job flags, checked under SpecPanel *)

notification == <<showSuccessOverlay, successMessage, countdown, intervals>>

\* C15: a success without delegated clears the pending flag of its job in
\* the handler itself and changes nothing of the notification: no overlay, no
\* message, no countdown, no interval.
C15_ImmediateSuccessIsSilent ==
    [][ /\ lastEvent' = "handleTrainSuccess:immediate"
            => (isTraining /\ ~isTraining' /\ notification' = notification)
        /\ lastEvent' = "handleApplySuccess:immediate"
            => (isApplying /\ ~isApplying' /\ notification' = notification)
      ]_vars

\* a model application has just succeeded immediately: nothing is pending,
\* nothing is shown, nothing counts down
C15_Witness ==
    /\ lastEvent = "handleApplySuccess:immediate"
    /\ ~isApplying
    /\ ~showSuccessOverlay
    /\ intervals = <<>>

C17_NoResubmissionWhilePending ==
    [][ /\ lastEvent' = "handleTrainStart" => (~isTraining /\ isTraining')
        /\ lastEvent' = "handleApplyStart" => (~isApplying /\ isApplying')
        /\ isTraining => TrainDisabled
        /\ isApplying => ApplyDisabled
        /\ (isTraining /\ ~isTraining')
            => lastEvent' \in {"handleTrainSuccess:delegated",
                               "handleTrainSuccess:immediate", "handleTrainError"}
        /\ (isApplying /\ ~isApplying')
            => lastEvent' \in {"handleApplySuccess:delegated",
                               "handleApplySuccess:immediate", "handleApplyError"}
      ]_vars

\* a training is pending on the training tab of a panel that is ready to
\* train: only the pending flag disables the button
C17_Witness ==
    /\ mounted
    /\ activeTab = "train"
    /\ isReadyToTrain
    /\ isTraining
    /\ TrainDisabled

-----------------------------------------------------------------------------
(* Further claims about the tag statistics, checked under SpecStats *)

\* C19: with 0 <= train, val <= total and train + val > total, both is the
\* excess train + val - total, the one-tag counts are the raw counts less
\* both, and untagged is 0; (60, 60, 100) gives 40, 40, 20, 0.
C19_OverlapIsThePigeonholeExcess ==
    /\ (/\ rawTrain <= totalSampleCount
        /\ rawVal <= totalSampleCount
        /\ rawTrain + rawVal > totalSampleCount)
        => /\ tagStats.both_count = rawTrain + rawVal - totalSampleCount
           /\ tagStats.train_count = rawTrain - tagStats.both_count
           /\ tagStats.val_count = rawVal - tagStats.both_count
           /\ tagStats.untagged_count = 0
    /\ computeStats(60, 60, 100) =
           [train_count |-> 40, val_count |-> 40, both_count |-> 20,
            total_count |-> 100, untagged_count |-> 0]

\* counts within the total whose sum exceeds it, just computed
C19_Witness ==
    /\ lastEvent = "ExecutorResult"
    /\ rawTrain <= totalSampleCount /\ rawVal <= totalSampleCount
    /\ rawTrain + rawVal > totalSampleCount
    /\ tagStats.both_count = rawTrain + rawVal - totalSampleCount
    /\ tagStats.both_count > 0

\* C20: with train + val <= total no overlap is reported: both is 0, the
\* one-tag counts are the raw counts and untagged is the rest of the total;
\* (0, 0, N) gives untagged N of total N, and (80, 20, 100) gives 80, 20, 0, 0.
C20_NoOverlapBelowTotal ==
    /\ rawTrain + rawVal <= totalSampleCount
        => /\ tagStats.both_count = 0
           /\ tagStats.train_count = rawTrain
           /\ tagStats.val_count = rawVal
           /\ tagStats.untagged_count = totalSampleCount - rawTrain - rawVal
    /\ \A N \in 0..MaxCount :
           computeStats(0, 0, N) =
               [train_count |-> 0, val_count |-> 0, both_count |-> 0,
                total_count |-> N, untagged_count |-> N]
    /\ computeStats(80, 20, 100) =
           [train_count |-> 80, val_count |-> 20, both_count |-> 0,
            total_count |-> 100, untagged_count |-> 0]

\* both tags counted, their sum below the total: some samples are untagged
C20_Witness ==
    /\ lastEvent = "ExecutorResult"
    /\ rawTrain > 0 /\ rawVal > 0
    /\ rawTrain + rawVal < totalSampleCount
    /\ tagStats.both_count = 0
    /\ tagStats.untagged_count > 0

-----------------------------------------------------------------------------
(* Claims about the view set by the bars, checked under SpecView *)

TrainStage == [tags |-> {"train"}, bool |-> TRUE]
ValStage == [tags |-> {"val"}, bool |-> TRUE]
NeitherStage == [tags |-> {"train", "val"}, bool |-> FALSE]

ViewSize(v, c) ==
    LET shown == ViewSamples(v, c)
    IN  shown.onlyTrain + shown.onlyVal + shown.both + shown.neither

\* C21: after a click on the both bar the view is two stages, the first
\* matching train and the second matching val, and it shows exactly the
\* samples carrying both tags.
C21_BothIsTrainThenVal ==
    lastEvent = "handleFilterByTag:both"
        => /\ view = <<TrainStage, ValStage>>
           /\ ViewSamples(view, samples) =
                  [onlyTrain |-> 0, onlyVal |-> 0, both |-> samples.both,
                   neither |-> 0]

\* the both bar was clicked over a dataset with samples of all four kinds
C21_Witness ==
    /\ lastEvent = "handleFilterByTag:both"
    /\ \A k \in Kinds : samples[k] > 0
    /\ Len(view) = 2
    /\ ViewSize(view, samples) = samples.both

\* C22: after a click on the train (val) bar the view is one stage matching
\* that tag; it shows the samples carrying only that tag and the samples
\* carrying both, and nothing else.
C22_SingleTagKeepsBoth ==
    /\ lastEvent = "handleFilterByTag:train"
        => /\ view = <<TrainStage>>
           /\ ViewSamples(view, samples) =
                  [onlyTrain |-> samples.onlyTrain, onlyVal |-> 0,
                   both |-> samples.both, neither |-> 0]
    /\ lastEvent = "handleFilterByTag:val"
        => /\ view = <<ValStage>>
           /\ ViewSamples(view, samples) =
                  [onlyTrain |-> 0, onlyVal |-> samples.onlyVal,
                   both |-> samples.both, neither |-> 0]

\* the train bar was clicked with fresh counts on display, and the view
\* shows more samples than the bar's count
C22_Witness ==
    /\ lastEvent = "handleFilterByTag:train"
    /\ tagCounts = CountSampleTags(samples)
    /\ totalSampleCount = SampleCount(samples)
    /\ samples.both > 0
    /\ ViewSize(view, samples) > tagStats.train_count

\* C23: after a click on the untagged bar the view is one stage, the
\* exclusion of the tags train and val, and it shows exactly the samples
\* carrying neither tag.
C23_UntaggedExcludesBothTags ==
    lastEvent = "handleFilterByTag:untagged"
        => /\ view = <<NeitherStage>>
           /\ ViewSamples(view, samples) =
                  [onlyTrain |-> 0, onlyVal |-> 0, both |-> 0,
                   neither |-> samples.neither]

\* the untagged bar was clicked over a dataset with samples of all four kinds
C23_Witness ==
    /\ lastEvent = "handleFilterByTag:untagged"
    /\ \A k \in Kinds : samples[k] > 0
    /\ Len(view) = 1
    /\ ViewSize(view, samples) = samples.neither

\* the view each category stands for
ClickedView(tag) ==
    CASE tag = "null" -> <<>>
      [] tag = "train" -> <<TrainStage>>
      [] tag = "val" -> <<ValStage>>
      [] tag = "both" -> <<TrainStage, ValStage>>
      [] tag = "untagged" -> <<NeitherStage>>

\* C24: a click on the total empties the view, which then shows every
\* sample; after any click the view is the one of the clicked category,
\* whatever the view was before.
C24_LastClickDecidesTheView ==
    /\ lastEvent = "handleFilterByTag:null"
        => (view = <<>> /\ ViewSamples(view, samples) = samples)
    /\ \A tag \in Categories :
           lastEvent = FilterEvent(tag) => view = ClickedView(tag)

\* the total was clicked while the two-stage view was active
C24_Witness ==
    /\ lastEvent = "handleFilterByTag:null"
    /\ prevView = <<TrainStage, ValStage>>
    /\ view = <<>>
    /\ SampleCount(samples) > 0
    /\ ViewSize(view, samples) = SampleCount(samples)

-----------------------------------------------------------------------------
(* Claims about readiness and about the estimate of the overlap *)

\* C25: the panel is ready to train exactly when the train count and the
\* val count are both positive, and the Start Training button is disabled
\* exactly when a training is pending or the panel is not ready in that sense.
C25_ReadyIffBothTagsCounted ==
    /\ isReadyToTrain <=> (rawTrain > 0 /\ rawVal > 0)
    /\ TrainDisabled <=> (isTraining \/ ~(rawTrain > 0 /\ rawVal > 0))

\* the integers the statistics are computed for, negative ones included
CountRange == (0 - MaxCount)..MaxCount

\* C26: the four parts add up to the total for all integer counts, consistent
\* or not, negative or not, and untagged is the total less the tagged
\* samples: the max(0, ...) around it never takes effect.
C26_PartsAlwaysSumToTotal ==
    /\ partsSum = totalSampleCount
    /\ \A t \in CountRange, v \in CountRange, n \in CountRange :
           LET st == computeStats(t, v, n)
               tagged == st.train_count + st.val_count + st.both_count
           IN  /\ tagged + st.untagged_count = n
               /\ st.untagged_count = n - tagged
               /\ tagged <= n

\* counts that are not consistent: more train samples than samples
C26_Witness ==
    /\ lastEvent \in {"ExecutorResult", "SampleCountChanged"}
    /\ rawTrain > totalSampleCount
    /\ rawVal > 0
    /\ partsSum = totalSampleCount

\* C27: with counts and total from one snapshot of the dataset, the both
\* count is at most the number of samples carrying both tags, the untagged
\* count at most the number carrying neither, and the train and val counts
\* are at least the numbers carrying only train and only val.
C27_OverlapIsALowerBound ==
    FreshSnapshot
        => /\ tagStats.both_count <= samples.both
           /\ tagStats.untagged_count <= samples.neither
           /\ tagStats.train_count >= samples.onlyTrain
           /\ tagStats.val_count >= samples.onlyVal

\* a fresh snapshot of a dataset whose overlap the counts do not show in full
C27_Witness ==
    /\ lastEvent \in {"ExecutorResult", "SampleCountChanged"}
    /\ FreshSnapshot
    /\ samples.both > tagStats.both_count
    /\ tagStats.both_count > 0
    /\ samples.neither > tagStats.untagged_count
    /\ tagStats.train_count > samples.onlyTrain

-----------------------------------------------------------------------------
(* Further claims about the button's warning and probe, checked under SpecProbe *)

OptionSelectedStep ==
    lastEvent' \in {"handleOptionSelected", "handleOptionSelected:relayed"}

C29_FirstVisibleSurfaceAloneDecides ==
    [][ \A i \in 1..MaxMenus, j \in 1..MaxMenus :
          (CheckStep /\ Found(i) /\ j \in 1..Len(menus) /\ j # i)
            => /\ ~isCheckingMenu'
               /\ (menus[i].items >= 1 /\ menus[j].items = 0)
                    => (showNoTargetsWarning' = showNoTargetsWarning /\ clicked' = 0)
               /\ (menus[i].items = 0 /\ menus[j].items >= 1)
                    => (showNoTargetsWarning' /\ clicked' \in {0, i}) ]_vars

\* a check has just met a populated visible surface followed by an empty
\* visible one, and has not warned
C29_Witness ==
    /\ lastEvent = "checkForEmptyMenu"
    /\ Len(menus) = 2
    /\ menus[1].visible /\ menus[1].items >= 1
    /\ menus[2].visible /\ menus[2].items = 0
    /\ ~showNoTargetsWarning
    /\ NoPoll

-----------------------------------------------------------------------------
(* The two jobs side by side, checked under SpecPanel *)

TrainEvents ==
    {"handleTrainStart", "handleTrainSuccess:delegated",
     "handleTrainSuccess:immediate", "handleTrainError"}

ApplyEvents ==
    {"handleApplyStart", "handleApplySuccess:delegated",
     "handleApplySuccess:immediate", "handleApplyError"}

\* C30: the handlers of the training leave isApplying alone and the handlers
\* of the model application leave isTraining alone; the Apply Model button is
\* disabled by isApplying only; a delegated success of either job writes the
\* one message, overlay flag and countdown the panel has.
C30_JobsIndependentNotificationShared ==
    [][ /\ lastEvent' \in TrainEvents => isApplying' = isApplying
        /\ lastEvent' \in ApplyEvents => isTraining' = isTraining
        /\ (isTraining /\ ~isApplying) => ~ApplyDisabled
        /\ lastEvent' = "handleTrainSuccess:delegated"
             => /\ successMessage' = "Training successfully scheduled!"
                /\ showSuccessOverlay' /\ countdown' = CountdownStart
        /\ lastEvent' = "handleApplySuccess:delegated"
             => /\ successMessage' = "Model application successfully scheduled!"
                /\ showSuccessOverlay' /\ countdown' = CountdownStart
      ]_vars

\* a model application has just been started while a training is pending
C30_Witness ==
    /\ lastEvent = "handleApplyStart"
    /\ isTraining
    /\ isApplying

=============================================================================
